---- MODULE Spec2Model ----
(***************************************************************************)
(* A model of the tool-calling agent of agent-example:                     *)
(*   src/main.py           generate_content, the bounded agent loop        *)
(*   src/call_function.py  call_function, the name-keyed dispatch          *)
(*   src/functions.py      the seven tool handlers and handle_errors       *)
(* Text is modelled by TLA+ strings (Len, \o and SubSeq act on them), the  *)
(* file system by a map from absolute paths to file contents plus a set of *)
(* directories.  The glyphs the handlers print are written in ASCII        *)
(* ("(check)" for the check mark, "(x)" for the cross, ...).               *)
(***************************************************************************)
EXTENDS Integers, Sequences, FiniteSets, TLC

(***************************************************************************)
(* Python str operations used by the handlers.                             *)
(***************************************************************************)

\* s[i:] for a 0-based i, as a Python slice
StrFrom(s, i) == SubSeq(s, i + 1, Len(s))

\* str.startswith
startswith(s, prefix) ==
    /\ Len(prefix) <= Len(s)
    /\ SubSeq(s, 1, Len(prefix)) = prefix

\* str.endswith
endswith(s, suffix) ==
    /\ Len(suffix) <= Len(s)
    /\ SubSeq(s, Len(s) - Len(suffix) + 1, Len(s)) = suffix

\* str.find: the 0-based index of the first occurrence of sub in s, or -1
str_find(s, sub) ==
    LET hits == {i \in 0..(Len(s) - Len(sub)) : SubSeq(s, i + 1, i + Len(sub)) = sub}
    IN  IF hits = {} THEN -1 ELSE CHOOSE i \in hits : \A j \in hits : i <= j

\* str.rfind: the 0-based index of the last occurrence of sub in s, or -1
str_rfind(s, sub) ==
    LET hits == {i \in 0..(Len(s) - Len(sub)) : SubSeq(s, i + 1, i + Len(sub)) = sub}
    IN  IF hits = {} THEN -1 ELSE CHOOSE i \in hits : \A j \in hits : j <= i

\* the `in` operator on strings: sub in s
str_contains(s, sub) == str_find(s, sub) >= 0

\* str.replace(old, new, 1): the first occurrence only
str_replace_first(s, old, new) ==
    IF str_find(s, old) < 0 THEN s
    ELSE SubSeq(s, 1, str_find(s, old)) \o new \o StrFrom(s, str_find(s, old) + Len(old))

\* str.replace(old, new): every non-overlapping occurrence, left to right;
\* an empty old matches before every character and at the end
RECURSIVE str_replace(_, _, _)
str_replace(s, old, new) ==
    IF old = ""
    THEN IF s = "" THEN new
         ELSE new \o SubSeq(s, 1, 1) \o str_replace(StrFrom(s, 1), old, new)
    ELSE LET i == str_find(s, old)
         IN  IF i < 0 THEN s
             ELSE SubSeq(s, 1, i) \o new
                  \o str_replace(StrFrom(s, i + Len(old)), old, new)

\* str.split(sep) for a one-character sep
RECURSIVE str_split(_, _)
str_split(s, sep) ==
    LET i == str_find(s, sep)
    IN  IF i < 0 THEN <<s>>
        ELSE <<SubSeq(s, 1, i)>> \o str_split(StrFrom(s, i + 1), sep)

\* sep.join(parts)
RECURSIVE str_join(_, _)
str_join(sep, parts) ==
    IF parts = <<>> THEN ""
    ELSE IF Len(parts) = 1 THEN parts[1]
    ELSE parts[1] \o sep \o str_join(sep, Tail(parts))

\* str.rstrip('/')
RECURSIVE rstrip_slash(_)
rstrip_slash(s) ==
    IF endswith(s, "/") /\ s # "" THEN rstrip_slash(SubSeq(s, 1, Len(s) - 1)) ELSE s

(***************************************************************************)
(* posixpath, as used by the handlers: os.path.join, os.path.abspath       *)
(* (normpath on the path joined to the process's directory), dirname.      *)
(***************************************************************************)

\* the directory the process runs in (the repository root, which holds todo/)
getcwd == "/w"

os_path_isabs(p) == startswith(p, "/")

\* os.path.join(a, b)
os_path_join(a, b) ==
    IF os_path_isabs(b) THEN b
    ELSE IF a = "" \/ endswith(a, "/") THEN a \o b
    ELSE a \o "/" \o b

\* the component loop of posixpath.normpath
RECURSIVE norm_comps(_, _, _)
norm_comps(comps, new_comps, initial_slashes) ==
    IF comps = <<>> THEN new_comps
    ELSE LET comp == Head(comps)
             rest == Tail(comps)
         IN  IF comp = "" \/ comp = "."
             THEN norm_comps(rest, new_comps, initial_slashes)
             ELSE IF \/ comp # ".."
                     \/ (initial_slashes = 0 /\ new_comps = <<>>)
                     \/ (new_comps # <<>> /\ new_comps[Len(new_comps)] = "..")
             THEN norm_comps(rest, Append(new_comps, comp), initial_slashes)
             ELSE IF new_comps # <<>>
             THEN norm_comps(rest, SubSeq(new_comps, 1, Len(new_comps) - 1), initial_slashes)
             ELSE norm_comps(rest, new_comps, initial_slashes)

\* posixpath.normpath
normpath(path) ==
    IF path = "" THEN "."
    ELSE LET initial_slashes ==
                 IF ~startswith(path, "/") THEN 0
                 ELSE IF startswith(path, "//") /\ ~startswith(path, "///") THEN 2
                 ELSE 1
             joined == str_join("/", norm_comps(str_split(path, "/"), <<>>, initial_slashes))
             full == IF initial_slashes = 2 THEN "//" \o joined
                     ELSE IF initial_slashes = 1 THEN "/" \o joined
                     ELSE joined
         IN  IF full = "" THEN "." ELSE full

\* os.path.abspath
os_path_abspath(path) ==
    IF os_path_isabs(path) THEN normpath(path)
    ELSE normpath(os_path_join(getcwd, path))

\* os.path.dirname
os_path_dirname(p) ==
    LET i == str_rfind(p, "/") + 1
        head == SubSeq(p, 1, i)
    IN  IF head # "" /\ rstrip_slash(head) # "" THEN rstrip_slash(head) ELSE head

\* os.path.basename
os_path_basename(p) == StrFrom(p, str_rfind(p, "/") + 1)

\* str(n) for a natural number n
RECURSIVE int_to_str(_)
int_to_str(n) ==
    LET digit == <<"0", "1", "2", "3", "4", "5", "6", "7", "8", "9">>
    IN  IF n < 10 THEN digit[n + 1]
        ELSE int_to_str(n \div 10) \o digit[(n % 10) + 1]

(***************************************************************************)
(* The file system: fs.files maps the absolute path of every regular file  *)
(* to its content, fs.dirs is the set of directories.  A path handed to    *)
(* the system is resolved against the process's directory.                 *)
(***************************************************************************)

is_entry(fs, a) == a \in DOMAIN fs.files \/ a \in fs.dirs

os_path_exists(fs, p) == is_entry(fs, os_path_abspath(p))

os_path_isdir(fs, p) == os_path_abspath(p) \in fs.dirs

\* open(p, "r") succeeds exactly on a regular file
can_read(fs, p) == os_path_abspath(p) \in DOMAIN fs.files

read_text(fs, p) == fs.files[os_path_abspath(p)]

\* open(p, "w") creates or truncates a regular file in an existing directory
can_write_entry(fs, a) == a \notin fs.dirs /\ os_path_dirname(a) \in fs.dirs

can_write(fs, p) == can_write_entry(fs, os_path_abspath(p))

\* the file system after open(p, "w") and f.write(content)
write_text(fs, p, content) ==
    [fs EXCEPT !.files = (os_path_abspath(p) :> content) @@ fs.files]

\* d and every ancestor of d
RECURSIVE ancestors(_)
ancestors(d) ==
    IF os_path_dirname(d) = d THEN {d} ELSE {d} \cup ancestors(os_path_dirname(d))

\* os.makedirs(d, exist_ok=True) fails when d or an ancestor is a regular file
can_makedirs(fs, d) == ancestors(os_path_abspath(d)) \cap DOMAIN fs.files = {}

makedirs(fs, d) == [fs EXCEPT !.dirs = fs.dirs \cup ancestors(os_path_abspath(d))]

\* the entries of directory d
children(fs, d) ==
    {p \in (DOMAIN fs.files) \cup fs.dirs : p # d /\ os_path_dirname(p) = d}

\* the sequences that hold every element of names once
orderings(names) ==
    {s \in [1..Cardinality(names) -> names] :
        \A i, j \in 1..Cardinality(names) : s[i] = s[j] => i = j}

\* os.listdir(d): the names of the entries, in an order the system chooses
os_listdir(fs, d) ==
    orderings({os_path_basename(p) : p \in children(fs, os_path_abspath(d))})

(***************************************************************************)
(* json.dump(todos, f, indent=2) and json.load(f) on the todo document, a  *)
(* list of {"task": str, "done": bool} objects.                            *)
(***************************************************************************)

json_item(todo) ==
    "  {\n    \"task\": \"" \o todo.task \o "\",\n    \"done\": "
    \o (IF todo.done THEN "true" ELSE "false") \o "\n  }"

json_dumps(todos) ==
    IF todos = <<>> THEN "[]"
    ELSE "[\n" \o str_join(",\n", [i \in 1..Len(todos) |-> json_item(todos[i])]) \o "\n]"

\* the 0-based index of the first character of s that is no JSON whitespace,
\* or Len(s) when there is none
json_skip(s) ==
    LET black == {i \in 0..(Len(s) - 1) : SubSeq(s, i + 1, i + 1) \notin {" ", "\n", "\t", "\r"}}
    IN  IF black = {} THEN Len(s) ELSE CHOOSE i \in black : \A j \in black : i <= j

\* the string token of the text after an opening quote, j the index of the
\* closing quote; escapes are not modelled
json_string_token(rest, j) ==
    IF j < 0 \/ str_contains(SubSeq(rest, 1, j), "\\")
    THEN [t |-> "bad", v |-> "", rest |-> ""]
    ELSE [t |-> "str", v |-> SubSeq(rest, 1, j), rest |-> StrFrom(rest, j + 1)]

\* the lexical token a text s starts with, and the text after it: a
\* punctuation mark, a string, true or false, "end" for the empty text, and
\* "bad" for anything else
json_token_at(s) ==
    CASE s = "" -> [t |-> "end", v |-> "", rest |-> ""]
      [] SubSeq(s, 1, 1) \in {"[", "]", "{", "}", ",", ":"} ->
             [t |-> "punct", v |-> SubSeq(s, 1, 1), rest |-> StrFrom(s, 1)]
      [] SubSeq(s, 1, 1) = "\"" ->
             json_string_token(StrFrom(s, 1), str_find(StrFrom(s, 1), "\""))
      [] startswith(s, "true") -> [t |-> "lit", v |-> "true", rest |-> StrFrom(s, 4)]
      [] startswith(s, "false") -> [t |-> "lit", v |-> "false", rest |-> StrFrom(s, 5)]
      [] OTHER -> [t |-> "bad", v |-> "", rest |-> ""]

\* the first token of a text, after its leading whitespace
json_token(text) == json_token_at(StrFrom(text, json_skip(text)))

\* the first n tokens of a text
RECURSIVE json_tokens(_, _), json_cons(_, _)
json_cons(token, n) == <<token>> \o json_tokens(token.rest, n)

json_tokens(text, n) == IF n = 0 THEN <<>> ELSE json_cons(json_token(text), n - 1)

json_is(token, t, v) == token.t = t /\ token.v = v

\* toks starts with the nine tokens of {"task": <str>, "done": <bool>}
json_is_item(toks) ==
    /\ json_is(toks[1], "punct", "{") /\ json_is(toks[2], "str", "task")
    /\ json_is(toks[3], "punct", ":") /\ toks[4].t = "str"
    /\ json_is(toks[5], "punct", ",") /\ json_is(toks[6], "str", "done")
    /\ json_is(toks[7], "punct", ":") /\ toks[8].t = "lit"
    /\ json_is(toks[9], "punct", "}")

json_fail == [ok |-> FALSE, todos |-> <<>>]

json_prepend(todo, more) ==
    IF more.ok THEN [ok |-> TRUE, todos |-> <<todo>> \o more.todos] ELSE json_fail

\* the todo objects of a JSON list, from the text after its "[" or after a
\* ",": json_items_of takes the next eleven tokens, an object, what
\* separates it from the rest, and the token after that
RECURSIVE json_items(_), json_items_of(_)
json_items(text) == json_items_of(json_tokens(text, 11))

json_items_of(toks) ==
    IF ~json_is_item(toks) THEN json_fail
    ELSE IF json_is(toks[10], "punct", "]")
    THEN IF toks[11].t = "end"
         THEN [ok |-> TRUE, todos |-> <<[task |-> toks[4].v, done |-> toks[8].v = "true"]>>]
         ELSE json_fail
    ELSE IF json_is(toks[10], "punct", ",")
    THEN json_prepend([task |-> toks[4].v, done |-> toks[8].v = "true"],
                      json_items(toks[10].rest))
    ELSE json_fail

json_loads_of(toks) ==
    IF ~json_is(toks[1], "punct", "[") THEN json_fail
    ELSE IF json_is(toks[2], "punct", "]")
    THEN IF toks[3].t = "end" THEN [ok |-> TRUE, todos |-> <<>>] ELSE json_fail
    ELSE json_items(toks[1].rest)

\* json.load on the todo document: [ok |-> TRUE, todos |-> the list], or
\* ok = FALSE when the text is no JSON list of todo objects (the handler then
\* raises before it writes anything)
json_loads(text) == json_loads_of(json_tokens(text, 3))

(***************************************************************************)
(* The tool handlers of functions.py.  A handler takes the file system,    *)
(* its Python parameters and the names of the arguments whose value is not *)
(* of the type the handler expects (illtyped), and yields the set of its   *)
(* possible outcomes: what it returned or raised, and the file system it   *)
(* left.                                                                   *)
(***************************************************************************)

MAX_CHARS == 100000

Return(value, fs) == [raised |-> FALSE, value |-> value, fs |-> fs]

Raise(exception, fs) == [raised |-> TRUE, value |-> exception, fs |-> fs]

\* the prefix test every file tool makes on the absolute path
inside_working_directory(abs_path, working_directory) ==
    startswith(abs_path, os_path_abspath(working_directory))

outside_message(verb, path) ==
    "Error: Cannot " \o verb \o " \"" \o path
    \o "\" as it is outside the permitted working directory"

\* one line of list_files: f"- {filename} {'(dir)' if is_dir else ''}"
files_info_line(fs, target_dir, filename) ==
    "- " \o filename \o " "
    \o (IF os_path_isdir(fs, os_path_join(target_dir, filename)) THEN "(dir)" ELSE "")

\* list_files from its existence test on (lines 43-51)
list_target_dir(fs, directory, target_dir) ==
    IF ~os_path_exists(fs, target_dir)
    THEN {Return("Error: Directory \"" \o (IF directory # "" THEN directory ELSE ".")
                 \o "\" does not exist", fs)}
    ELSE IF ~os_path_isdir(fs, target_dir)
    THEN {Raise("[Errno 20] Not a directory: '" \o target_dir \o "'", fs)}
    ELSE {Return(str_join("\n", [i \in 1..Len(names) |->
                                     files_info_line(fs, target_dir, names[i])]), fs) :
              names \in os_listdir(fs, target_dir)}

list_files_checked(fs, working_directory, directory, target_dir) ==
    IF ~inside_working_directory(target_dir, working_directory)
    THEN {Return(outside_message("access", directory), fs)}
    ELSE list_target_dir(fs, directory, target_dir)

\* directory = "" stands for None as well: `if directory` and
\* `directory or "."` treat the two alike
list_files(fs, working_directory, directory, illtyped) ==
    IF "directory" \in illtyped
    THEN {Raise("expected str, bytes or os.PathLike object", fs)}
    ELSE IF directory # ""
    THEN list_files_checked(fs, working_directory, directory,
                            os_path_abspath(os_path_join(working_directory, directory)))
    ELSE list_target_dir(fs, directory, os_path_abspath(working_directory))

\* f.read(n): the first n characters of the file, or all of it
f_read(stored, n) == SubSeq(stored, 1, IF Len(stored) < n THEN Len(stored) ELSE n)

\* lines 64-66: the marker is appended when the read filled the budget
with_truncation_marker(content, file_path) ==
    IF Len(content) = MAX_CHARS
    THEN content \o "\n[...File \"" \o file_path \o "\" truncated at "
         \o int_to_str(MAX_CHARS) \o " characters]"
    ELSE content

get_file_content_at(fs, working_directory, file_path, abs_path) ==
    IF ~inside_working_directory(abs_path, working_directory)
    THEN {Return(outside_message("access", file_path), fs)}
    ELSE IF ~os_path_exists(fs, abs_path)
    THEN {Return("Error: File \"" \o file_path \o "\" does not exist", fs)}
    ELSE IF ~can_read(fs, abs_path)
    THEN {Raise("[Errno 21] Is a directory: '" \o abs_path \o "'", fs)}
    ELSE {Return(with_truncation_marker(f_read(read_text(fs, abs_path), MAX_CHARS),
                                        file_path), fs)}

get_file_content(fs, working_directory, file_path, illtyped) ==
    IF "file_path" \in illtyped
    THEN {Raise("expected str, bytes or os.PathLike object", fs)}
    ELSE get_file_content_at(fs, working_directory, file_path,
                             os_path_abspath(os_path_join(working_directory, file_path)))

\* overwrite_file after os.makedirs (line 75); open(abs_path, "w") has
\* truncated the file when f.write raises on a content that is no str
overwrite_file_open(made, file_path, content, abs_path, illtyped) ==
    IF ~can_write(made, abs_path)
    THEN {Raise("[Errno 21] Is a directory: '" \o abs_path \o "'", made)}
    ELSE IF "content" \in illtyped
    THEN {Raise("write() argument must be str", write_text(made, abs_path, ""))}
    ELSE {Return("Successfully wrote to \"" \o file_path \o "\"",
                 write_text(made, abs_path, content))}

overwrite_file_at(fs, working_directory, file_path, content, abs_path, illtyped) ==
    IF ~inside_working_directory(abs_path, working_directory)
    THEN {Return(outside_message("write to", file_path), fs)}
    ELSE IF ~can_makedirs(fs, os_path_dirname(abs_path))
    THEN {Raise("[Errno 20] Not a directory: '" \o os_path_dirname(abs_path) \o "'", fs)}
    ELSE overwrite_file_open(makedirs(fs, os_path_dirname(abs_path)), file_path, content,
                             abs_path, illtyped)

overwrite_file(fs, working_directory, file_path, content, illtyped) ==
    IF "file_path" \in illtyped
    THEN {Raise("expected str, bytes or os.PathLike object", fs)}
    ELSE overwrite_file_at(fs, working_directory, file_path, content,
                           os_path_abspath(os_path_join(working_directory, file_path)),
                           illtyped)

\* ''.join(difflib.unified_diff(...)): empty exactly when the two texts are
\* equal, else the two headers and the changed text
unified_diff(original_content, new_content, file_path) ==
    IF new_content = original_content THEN ""
    ELSE "--- a/" \o file_path \o "+++ b/" \o file_path
         \o "-" \o original_content \o "+" \o new_content

\* lines 94-104, new_content in hand
replace_write(fs, file_path, old_str, new_str, abs_path, diff, new_content) ==
    {Return(IF diff # "" THEN diff
            ELSE "Successfully replaced \"" \o old_str \o "\" with \"" \o new_str
                 \o "\" in " \o file_path,
            write_text(fs, abs_path, new_content))}

\* lines 89-104, original_content in hand
replace_in_content(fs, file_path, old_str, new_str, abs_path, original_content, illtyped) ==
    IF "old_str" \in illtyped
    THEN {Raise("'in <string>' requires string as left operand", fs)}
    ELSE IF ~str_contains(original_content, old_str)
    THEN {Return("String \"" \o old_str \o "\" not found in file \"" \o file_path \o "\"", fs)}
    ELSE IF "new_str" \in illtyped
    THEN {Raise("replace() argument 2 must be str", fs)}
    ELSE replace_write(fs, file_path, old_str, new_str, abs_path,
             unified_diff(original_content, str_replace(original_content, old_str, new_str),
                          file_path),
             str_replace(original_content, old_str, new_str))

replace_str_file_at(fs, working_directory, file_path, old_str, new_str, abs_path, illtyped) ==
    IF ~inside_working_directory(abs_path, working_directory)
    THEN {Return(outside_message("access", file_path), fs)}
    ELSE IF ~os_path_exists(fs, abs_path)
    THEN {Return("Error: File \"" \o file_path \o "\" does not exist", fs)}
    ELSE IF ~can_read(fs, abs_path)
    THEN {Raise("[Errno 21] Is a directory: '" \o abs_path \o "'", fs)}
    ELSE replace_in_content(fs, file_path, old_str, new_str, abs_path,
                            read_text(fs, abs_path), illtyped)

replace_str_file(fs, working_directory, file_path, old_str, new_str, illtyped) ==
    IF "file_path" \in illtyped
    THEN {Raise("expected str, bytes or os.PathLike object", fs)}
    ELSE replace_str_file_at(fs, working_directory, file_path, old_str, new_str,
                             os_path_abspath(os_path_join(working_directory, file_path)),
                             illtyped)

\* with open(todo_file, 'w') as f: json.dump(todos, f, indent=2)
dump_todos(fs, todo_file, todos, message) ==
    IF ~can_write(fs, todo_file)
    THEN {Raise("[Errno 2] No such file or directory: '" \o todo_file \o "'", fs)}
    ELSE {Return(message, write_text(fs, todo_file, json_dumps(todos)))}

\* todos.insert(0, ...): the new item put first
todo_add_loaded_first(fs, todo_file, loaded, task) ==
    IF ~loaded.ok
    THEN {Raise("Expecting value: line 1 column 1 (char 0)", fs)}
    ELSE dump_todos(fs, todo_file, <<[task |-> task, done |-> FALSE]>> \o loaded.todos,
                    "(check) Added: " \o task)

\* todo_add with the loaded list in hand (lines 116-121)
todo_add_loaded(fs, todo_file, loaded, task) ==
    IF ~loaded.ok
    THEN {Raise("Expecting value: line 1 column 1 (char 0)", fs)}
    ELSE dump_todos(fs, todo_file, Append(loaded.todos, [task |-> task, done |-> FALSE]),
                    "(check) Added: " \o task)

todo_add_file(fs, todo_file, task) ==
    IF ~os_path_exists(fs, todo_file)
    THEN todo_add_loaded(fs, todo_file, [ok |-> TRUE, todos |-> <<>>], task)
    ELSE IF ~can_read(fs, todo_file)
    THEN {Raise("[Errno 21] Is a directory: '" \o todo_file \o "'", fs)}
    ELSE todo_add_loaded(fs, todo_file, json_loads(read_text(fs, todo_file)), task)

todo_add(fs, working_directory, task, illtyped) ==
    todo_add_file(fs, os_path_join(working_directory, "todos.json"), task)

\* enumerate(todos) without its start: the lines numbered from 0
todo_line_from_zero(i, todo) ==
    "  " \o int_to_str(i - 1) \o ". "
    \o (IF todo.done THEN "(v) ~~" \o todo.task \o "~~" ELSE "(o) " \o todo.task)

\* one line of the listing: f"  {i}. {status} {task_text}"
todo_line(i, todo) ==
    "  " \o int_to_str(i) \o ". "
    \o (IF todo.done THEN "(v) ~~" \o todo.task \o "~~" ELSE "(o) " \o todo.task)

\* todo_list with the loaded list in hand (lines 133-146)
todo_list_loaded(fs, loaded) ==
    IF ~loaded.ok
    THEN {Raise("Expecting value: line 1 column 1 (char 0)", fs)}
    ELSE IF loaded.todos = <<>>
    THEN {Return("(memo) No todos found!", fs)}
    ELSE {Return(str_join("\n", <<"(list) Your todos:">>
                                \o [i \in 1..Len(loaded.todos) |->
                                        todo_line(i, loaded.todos[i])]), fs)}

todo_list_file(fs, todo_file) ==
    IF ~os_path_exists(fs, todo_file)
    THEN {Return("(memo) No todos found!", fs)}
    ELSE IF ~can_read(fs, todo_file)
    THEN {Raise("[Errno 21] Is a directory: '" \o todo_file \o "'", fs)}
    ELSE todo_list_loaded(fs, json_loads(read_text(fs, todo_file)))

todo_list(fs, working_directory, illtyped) ==
    todo_list_file(fs, os_path_join(working_directory, "todos.json"))

\* the flag flipped instead of set
mark_done_toggled(todos, index) == [todos EXCEPT ![index].done = ~@]

\* todos[index-1]["done"] = True
mark_done(todos, index) == [todos EXCEPT ![index].done = TRUE]

\* todo_done with the loaded list in hand (lines 158-168)
todo_done_loaded(fs, todo_file, loaded, index, illtyped) ==
    IF ~loaded.ok
    THEN {Raise("Expecting value: line 1 column 1 (char 0)", fs)}
    ELSE IF loaded.todos = <<>>
    THEN {Return("(x) No todos found!", fs)}
    ELSE IF "index" \in illtyped
    THEN {Raise("'<=' not supported between instances of 'int' and 'str'", fs)}
    ELSE IF 1 <= index /\ index <= Len(loaded.todos)
    THEN dump_todos(fs, todo_file, mark_done(loaded.todos, index),
                    "(party) Completed: " \o loaded.todos[index].task)
    ELSE {Return("(x) Invalid todo number", fs)}

todo_done_file(fs, todo_file, index, illtyped) ==
    IF ~os_path_exists(fs, todo_file)
    THEN {Return("(x) No todos found!", fs)}
    ELSE IF ~can_read(fs, todo_file)
    THEN {Raise("[Errno 21] Is a directory: '" \o todo_file \o "'", fs)}
    ELSE todo_done_loaded(fs, todo_file, json_loads(read_text(fs, todo_file)), index,
                          illtyped)

todo_done(fs, working_directory, index, illtyped) ==
    todo_done_file(fs, os_path_join(working_directory, "todos.json"), index, illtyped)

\* a decorator that lets the exception of the handler through
handle_errors_reraise(outcomes) == outcomes

\* the decorator: whatever the handler raises becomes the text "Error: {e}"
handle_errors(outcomes) ==
    {IF o.raised THEN Return("Error: " \o o.value, o.fs) ELSE o : o \in outcomes}

\* func(*args, **kwargs) binds the keyword arguments to the parameters of
\* func, or raises TypeError
binds(args, required, optional) ==
    /\ required \subseteq DOMAIN args
    /\ DOMAIN args \subseteq required \cup optional

bind_error(name, fs) == {Raise(name \o "() got a missing or unexpected argument", fs)}

(***************************************************************************)
(* call_function.py: the dispatch table and call_function.                 *)
(***************************************************************************)

function_names ==
    {"list_files", "get_file_content", "overwrite_file", "replace_str_file",
     "todo_add", "todo_list", "todo_done"}

\* func(**args) for the handler of that name, before the decorator acts
handler_call(name, fs, args, illtyped) ==
    CASE name = "list_files" ->
             IF binds(args, {"working_directory"}, {"directory"})
             THEN list_files(fs, args.working_directory,
                             IF "directory" \in DOMAIN args THEN args.directory ELSE "",
                             illtyped)
             ELSE bind_error(name, fs)
      [] name = "get_file_content" ->
             IF binds(args, {"working_directory", "file_path"}, {})
             THEN get_file_content(fs, args.working_directory, args.file_path, illtyped)
             ELSE bind_error(name, fs)
      [] name = "overwrite_file" ->
             IF binds(args, {"working_directory", "file_path", "content"}, {})
             THEN overwrite_file(fs, args.working_directory, args.file_path, args.content,
                                 illtyped)
             ELSE bind_error(name, fs)
      [] name = "replace_str_file" ->
             IF binds(args, {"working_directory", "file_path", "old_str", "new_str"}, {})
             THEN replace_str_file(fs, args.working_directory, args.file_path,
                                   args.old_str, args.new_str, illtyped)
             ELSE bind_error(name, fs)
      [] name = "todo_add" ->
             IF binds(args, {"working_directory", "task"}, {})
             THEN todo_add(fs, args.working_directory, args.task, illtyped)
             ELSE bind_error(name, fs)
      [] name = "todo_list" ->
             IF binds(args, {"working_directory"}, {})
             THEN todo_list(fs, args.working_directory, illtyped)
             ELSE bind_error(name, fs)
      [] name = "todo_done" ->
             IF binds(args, {"working_directory", "index"}, {})
             THEN todo_done(fs, args.working_directory, args.index, illtyped)
             ELSE bind_error(name, fs)

\* function_map[name](**args): every entry is a handler under @handle_errors
function_map(name, fs, args, illtyped) ==
    handle_errors(handler_call(name, fs, args, illtyped))

\* types.Part.from_function_response(name=..., response=...)
from_function_response(name, response) ==
    [function_response |-> [name |-> name, response |-> response]]

\* types.Content(role=..., parts=[...])
Content(role, parts) == [role |-> role, parts |-> parts]

\* a function call without arguments
NoArgs == [k \in {} |-> ""]

\* args["working_directory"] = 'todo' where the arguments that are there win
inject_working_directory_setdefault(args) == args @@ ("working_directory" :> "todo")

\* args = dict(function_call_part.args); args["working_directory"] = 'todo'
inject_working_directory(args) == ("working_directory" :> "todo") @@ args

\* lines 38-42: function_map[function_name](**args) and the Content made of
\* its result; args is what the handler was called with
invoke(fs, function_name, args, illtyped) ==
    {[raised |-> o.raised,
      content |-> Content("tool", <<from_function_response(function_name,
                     [result |-> o.value])>>),
      fs |-> o.fs,
      handler |-> function_name,
      args |-> args] :
        o \in function_map(function_name, fs, args, illtyped)}

\* call_function without the test of lines 30-34: the lookup
\* function_map[function_name] raises KeyError for a name that is no key
call_function_unchecked(fs, function_call_part) ==
    IF function_call_part.name \notin function_names
    THEN {[raised |-> TRUE,
           content |-> Content("tool", <<from_function_response(function_call_part.name,
                          [result |-> "KeyError"])>>),
           fs |-> fs,
           handler |-> "",
           args |-> NoArgs]}
    ELSE invoke(fs, function_call_part.name,
                inject_working_directory(function_call_part.args),
                function_call_part.illtyped \ {"working_directory"})

\* call_function with function_map.get(function_name, todo_add): a name that
\* is no key falls back to a handler, which gets the arguments it can take
call_function_fallback(fs, function_call_part) ==
    IF function_call_part.name \notin function_names
    THEN {[r EXCEPT !.content = Content("tool",
                        <<from_function_response(function_call_part.name,
                              r.content.parts[1].function_response.response)>>)] :
            r \in invoke(fs, "todo_add",
                         [working_directory |-> "todo", task |-> function_call_part.name],
                         {})}
    ELSE invoke(fs, function_call_part.name,
                inject_working_directory(function_call_part.args),
                function_call_part.illtyped \ {"working_directory"})

\* the possible results of call_function(function_call_part) on file system
\* fs: the Content it returns (or raised = TRUE when an exception leaves it),
\* the file system afterwards, the handler it invoked ("" for none) and the
\* arguments it gave the handler
call_function(fs, function_call_part) ==
    IF function_call_part.name \notin function_names
    THEN {[raised |-> FALSE,
           content |-> Content("tool", <<from_function_response(function_call_part.name,
                          [error |-> "Unknown function: " \o function_call_part.name])>>),
           fs |-> fs,
           handler |-> "",
           args |-> NoArgs]}
    ELSE IF function_call_part.args_is_none
    THEN \* line 36: dict(None) raises TypeError, outside every handler
         {[raised |-> TRUE,
           content |-> Content("tool", <<>>),
           fs |-> fs,
           handler |-> "",
           args |-> NoArgs]}
    ELSE invoke(fs, function_call_part.name,
                inject_working_directory(function_call_part.args),
                function_call_part.illtyped \ {"working_directory"})

\* the messages of the exceptions the handler of the call raises on fs, which
\* the decorator catches (functions.py, lines 28-31): none where it returns
handler_exceptions(fs, function_call_part) ==
    IF function_call_part.name \notin function_names \/ function_call_part.args_is_none
    THEN {}
    ELSE {o.value : o \in {x \in handler_call(function_call_part.name, fs,
                                     inject_working_directory(function_call_part.args),
                                     function_call_part.illtyped \ {"working_directory"}) :
                             x.raised}}

(***************************************************************************)
(* The model client's answers.  A tool call is a name, an argument mapping *)
(* and the set of arguments whose value has another type than the tool's   *)
(* schema declares.                                                        *)
(***************************************************************************)

ToolCall(name, args, illtyped) ==
    [name |-> name, args |-> args, illtyped |-> illtyped, args_is_none |-> FALSE]

\* a function call whose args is None (FunctionCall.args is optional)
ToolCallWithoutArgs(name) ==
    [name |-> name, args |-> NoArgs, illtyped |-> {}, args_is_none |-> TRUE]

ToolCalls ==
    {ToolCall("list_files", NoArgs, {}),
     ToolCall("get_file_content", [file_path |-> "nope"], {}),
     ToolCall("get_file_content", [file_path |-> "../key"], {}),
     ToolCall("get_file_content", [file_path |-> "."], {}),
     ToolCall("get_file_content", [working_directory |-> "/w", file_path |-> "key"], {}),
     ToolCall("replace_str_file",
              [file_path |-> "a.txt", old_str |-> "foo", new_str |-> "bar"], {}),
     ToolCall("overwrite_file", [file_path |-> "todos.json", content |-> "x"], {}),
     ToolCall("todo_add", [task |-> "buy milk"], {}),
     ToolCall("todo_list", NoArgs, {}),
     ToolCall("todo_list", [verbose |-> "yes"], {}),
     ToolCall("todo_done", [index |-> 1], {}),
     ToolCall("todo_done", [index |-> 2], {}),
     ToolCall("todo_done", NoArgs, {}),
     ToolCall("todo_done", [index |-> 0], {"index"}),
     ToolCall("delete_file", [file_path |-> "a.txt"], {})}

\* the tool calls of a client that also leaves args out
ToolCallsOrNone ==
    {ToolCallWithoutArgs("todo_list"),
     ToolCallWithoutArgs("delete_file"),
     ToolCall("todo_list", NoArgs, {}),
     ToolCall("todo_add", [task |-> "buy milk"], {}),
     ToolCall("todo_done", [index |-> 1], {}),
     ToolCall("get_file_content", [file_path |-> "a.txt"], {})}

\* the most tool calls a scripted client requests in one run
MaxToolCalls == 2

SeqsUpTo(S, n) == UNION {[1..m -> S] : m \in 0..n}

\* The client is a stub of one of two kinds: "scripted" answers with any
\* tool calls of ToolCalls, MaxToolCalls in the whole run at most, and then
\* with its final text; "repeat" answers each round either with its final
\* text or with the one response it was built with.
Clients ==
    {[kind |-> "scripted", calls |-> <<>>]}
    \cup {[kind |-> "repeat", calls |-> <<c>>] : c \in ToolCalls}

\* a GenerateContentResponse with one candidate, whose content holds either
\* the final text or the requested function calls
Response(calls) ==
    [candidates |-> <<[content |->
        Content("model",
                IF calls = <<>> THEN <<[text |-> "All done."]>>
                ELSE [i \in 1..Len(calls) |-> [function_call |-> calls[i]]])]>>]

is_function_call(part) == "function_call" \in DOMAIN part

\* response.function_calls: the function calls of the first candidate
function_calls(resp) ==
    LET parts == SelectSeq(resp.candidates[1].content.parts, is_function_call)
    IN  [i \in 1..Len(parts) |-> parts[i].function_call]

\* response.text: the text of the first candidate
response_text(resp) ==
    LET part == resp.candidates[1].content.parts[1]
    IN  IF "text" \in DOMAIN part THEN part.text ELSE "None"

(***************************************************************************)
(* main.py: main builds the conversation and generate_content runs the     *)
(* loop.  pc is the place of the process in generate_content.              *)
(***************************************************************************)

max_iterations == 20

VARIABLES
    client,              \* the model client stub (main.py:61)
    messages,            \* the conversation
    fs,                  \* the file system
    pc,                  \* "call_model", "call_function", "append_responses",
                         \* "after_loop", "done" or "crashed"
    iteration,           \* the loop variable of generate_content
    response,            \* the response of the current round
    function_responses,  \* the parts collected in the current round
    call_index,          \* the position in response.function_calls
    out,                 \* what was printed
    model_calls,         \* how often the client was called
    log                  \* every call_function made: round, call, result,
                         \* the file system before and after, and the
                         \* exceptions of the handler

vars == <<client, messages, fs, pc, iteration, response, function_responses,
          call_index, out, model_calls, log>>

\* the process's directory at start: the sandbox todo/ with one file, a
\* sibling directory todo2/ and a file beside them; no todos.json yet
InitialFs ==
    [files |-> ("/w/todo/a.txt" :> "foo foo") @@ ("/w/todo2/key" :> "k2")
               @@ ("/w/key" :> "k"),
     dirs |-> {"/", "/w", "/w/todo", "/w/todo2"}]

\* messages = [types.Content(role="user", parts=[types.Part(text=prompt)])]
InitialMessages == <<Content("user", <<[text |-> "prompt"]>>)>>

Init ==
    /\ client \in Clients
    /\ messages = InitialMessages
    /\ fs = InitialFs
    /\ pc = "call_model"
    /\ iteration = 0
    /\ response = Response(<<>>)
    /\ function_responses = <<>>
    /\ call_index = 1
    /\ out = <<>>
    /\ model_calls = 0
    /\ log = <<>>

\* what the client may answer in this round
ClientAnswers ==
    IF client.kind = "repeat" THEN {<<>>, client.calls}
    ELSE IF client.kind = "scripted" THEN SeqsUpTo(ToolCalls, MaxToolCalls - Len(log))
    ELSE SeqsUpTo(ToolCallsOrNone, MaxToolCalls - Len(log))

\* messages.append(types.Content(role="user", parts=[function_response_part]))
tool_message(function_response_part) == Content("user", <<function_response_part>>)

\* range(max_iterations + 1): one round too many
has_next_iteration_off_by_one(i) == i + 1 < max_iterations + 1

\* `for iteration in range(max_iterations)` has another round to run
has_next_iteration(i) == i + 1 < max_iterations

\* `if iteration == max_iterations`, which the loop variable never reaches
is_last_iteration_never(i) == i = max_iterations

\* `if iteration == max_iterations - 1` after the loop
is_last_iteration(i) == i = max_iterations - 1

\* the conversation cut to its newest messages before it grows
append_all_pruned(conversation, contents) ==
    (IF Len(conversation) > 3 THEN Tail(conversation) ELSE conversation) \o contents

\* messages.append(...) for each of contents, in their order
append_all(conversation, contents) == conversation \o contents

\* the collected parts appended last first
function_response_messages_reversed(parts) ==
    [i \in 1..Len(parts) |-> Content("user", <<parts[Len(parts) + 1 - i]>>)]

\* `for function_response_part in function_responses[:1]`: only the first
\* collected part gets its message
function_response_messages_first_only(parts) ==
    [i \in 1..(IF parts = <<>> THEN 0 ELSE 1) |-> tool_message(parts[i])]

\* lines 50-51: one message for each collected part, in the order collected
function_response_messages(parts) ==
    [i \in 1..Len(parts) |-> tool_message(parts[i])]

\* lines 33-35: the content of every candidate of the response
candidate_contents(resp) ==
    [i \in 1..Len(resp.candidates) |-> resp.candidates[i].content]

\* lines 25-41: call the client, append the candidates, stop on a final text
ModelResponds ==
    /\ pc = "call_model"
    /\ \E calls \in ClientAnswers :
         LET resp == Response(calls)
         IN  /\ response' = resp
             /\ model_calls' = model_calls + 1
             /\ messages' = append_all(messages, candidate_contents(resp))
             /\ IF function_calls(resp) = <<>>
                THEN /\ out' = out \o <<"Final response:", response_text(resp)>>
                     /\ pc' = "after_loop"
                     /\ UNCHANGED <<function_responses, call_index>>
                ELSE /\ function_responses' = <<>>
                     /\ call_index' = 1
                     /\ pc' = "call_function"
                     /\ UNCHANGED out
    /\ UNCHANGED <<client, fs, iteration, log>>

\* lines 45-47 with the call in try/except and `continue`: a call that
\* raises is passed over
CallFunctionPassingOver ==
    /\ pc = "call_function"
    /\ \E r \in call_function(fs, function_calls(response)[call_index]) :
         /\ out' = Append(out, " - Calling function: "
                               \o function_calls(response)[call_index].name)
         /\ log' = Append(log, [round |-> iteration,
                                call |-> function_calls(response)[call_index],
                                handler |-> r.handler, raised |-> r.raised,
                                content |-> r.content, before |-> fs,
                                after |-> r.fs, args |-> r.args,
                                exceptions |-> {}])
         /\ fs' = r.fs
         /\ function_responses' = IF r.raised THEN function_responses
                                  ELSE Append(function_responses, r.content.parts[1])
         /\ call_index' = call_index + 1
         /\ pc' = IF call_index = Len(function_calls(response))
                  THEN "append_responses" ELSE "call_function"
    /\ UNCHANGED <<client, messages, iteration, response, model_calls>>

\* lines 45-47: one pass of the loop over response.function_calls
CallFunction ==
    /\ pc = "call_function"
    /\ LET function_call_part == function_calls(response)[call_index]
       IN  \E r \in call_function(fs, function_call_part) :
             /\ out' = Append(out, " - Calling function: " \o function_call_part.name)
             /\ log' = Append(log, [round |-> iteration, call |-> function_call_part,
                                    handler |-> r.handler, raised |-> r.raised,
                                    content |-> r.content, before |-> fs,
                                    after |-> r.fs, args |-> r.args,
                                    exceptions |->
                                        handler_exceptions(fs, function_call_part)])
             /\ fs' = r.fs
             /\ IF r.raised
                THEN /\ pc' = "crashed"
                     /\ UNCHANGED <<function_responses, call_index>>
                ELSE /\ function_responses' = Append(function_responses, r.content.parts[1])
                     /\ call_index' = call_index + 1
                     /\ pc' = IF call_index = Len(function_calls(response))
                              THEN "append_responses" ELSE "call_function"
    /\ UNCHANGED <<client, messages, iteration, response, model_calls>>

\* lines 50-51, and the step of the for loop
AppendResponses ==
    /\ pc = "append_responses"
    /\ messages' = append_all(messages, function_response_messages(function_responses))
    /\ IF has_next_iteration(iteration)
       THEN iteration' = iteration + 1 /\ pc' = "call_model"
       ELSE UNCHANGED iteration /\ pc' = "after_loop"
    /\ UNCHANGED <<client, fs, response, function_responses, call_index, out,
                   model_calls, log>>

\* lines 53-54
AfterLoop ==
    /\ pc = "after_loop"
    /\ out' = IF is_last_iteration(iteration)
              THEN Append(out, "Maximum iterations reached.") ELSE out
    /\ pc' = "done"
    /\ UNCHANGED <<client, messages, fs, iteration, response, function_responses,
                   call_index, model_calls, log>>

Next == ModelResponds \/ CallFunction \/ AppendResponses \/ AfterLoop

Spec == Init /\ [][Next]_vars

\* the loop with a client whose function calls may come without args
InitArgsOptional ==
    /\ client = [kind |-> "args optional", calls |-> <<>>]
    /\ messages = InitialMessages
    /\ fs = InitialFs
    /\ pc = "call_model"
    /\ iteration = 0
    /\ response = Response(<<>>)
    /\ function_responses = <<>>
    /\ call_index = 1
    /\ out = <<>>
    /\ model_calls = 0
    /\ log = <<>>

SpecArgsOptional == InitArgsOptional /\ [][Next]_vars

\* The loop is one sequential process: it takes its next step when it has
\* one.  CallFunction has a step exactly when pc = "call_function" (the
\* handler always comes to an outcome), and its weak fairness is written
\* with that condition in the place of ENABLED <<CallFunction>>_vars.
FairSpec ==
    /\ Spec
    /\ WF_vars(ModelResponds)
    /\ WF_vars(AppendResponses)
    /\ WF_vars(AfterLoop)
    /\ []<>(pc # "call_function") \/ []<><<CallFunction>>_vars

(***************************************************************************)
(* The tools called one after another on one working directory, as         *)
(* call_function calls them, by their entry of function_map.  Here pc     *)
(* stays "tools", client tells the working directory of the run, and log   *)
(* holds every call: the tool, its arguments, what it returned and the     *)
(* file system before and after.                                           *)
(***************************************************************************)

\* the most calls in one run of the tools
MaxOps == 2

\* the working directory call_function gives every tool
WorkingDirectories == {"todo"}

\* a text of n characters
RECURSIVE Fill(_)
Fill(n) ==
    IF n = 0 THEN ""
    ELSE IF n % 2 = 1 THEN "x" \o Fill(n - 1)
    ELSE Fill(n \div 2) \o Fill(n \div 2)

\* the todo lists todos.json holds at the start: none (no file), or a list
\* that todo_add and todo_done have written
StoresAtStart ==
    {[stored |-> FALSE, todos |-> <<>>],
     [stored |-> TRUE, todos |-> <<[task |-> "a", done |-> TRUE],
                                   [task |-> "buy milk", done |-> FALSE]>>]}

StartFs(working_directory, store) ==
    IF store.stored
    THEN write_text(InitialFs, os_path_join(working_directory, "todos.json"),
                    json_dumps(store.todos))
    ELSE InitialFs

ToolsInit ==
    /\ client \in {[kind |-> "tools", working_directory |-> d] : d \in WorkingDirectories}
    /\ \E store \in StoresAtStart : fs = StartFs(client.working_directory, store)
    /\ messages = InitialMessages
    /\ pc = "tools"
    /\ iteration = 0
    /\ response = Response(<<>>)
    /\ function_responses = <<>>
    /\ call_index = 1
    /\ out = <<>>
    /\ model_calls = 0
    /\ log = <<>>

\* the arguments the tools are called with
Directories == {"", "..", "../todo2"}
ReadPaths == {"a.txt", "../key", "/w/key", "../todo2/key", "big.txt"}
WritePaths == {"a.txt", "sub/b.txt", "../todo2/key"}
Contents == {"bar"}
BigContents == {Fill(MAX_CHARS - 1), Fill(MAX_CHARS), Fill(MAX_CHARS + 1)}
Replacements ==
    {[file_path |-> "a.txt", old_str |-> "foo", new_str |-> "bar"],
     [file_path |-> "a.txt", old_str |-> "foo", new_str |-> "foo"],
     [file_path |-> "a.txt", old_str |-> "o", new_str |-> "oo"],
     [file_path |-> "a.txt", old_str |-> "zzz", new_str |-> "y"],
     [file_path |-> "nope", old_str |-> "foo", new_str |-> "bar"],
     [file_path |-> "../todo2/key", old_str |-> "k", new_str |-> "x"]}
Tasks == {"buy milk"}
Indexes == {-1, 0, 1, 2, 3}

\* function_map[name](**args) with the working directory of the run; the
\* arguments named in illtyped are not of the type the handler expects
ToolStepIlltyped(name, args, illtyped) ==
    /\ pc = "tools"
    /\ Len(log) < MaxOps
    /\ \E o \in function_map(name, fs,
                             ("working_directory" :> client.working_directory) @@ args,
                             illtyped) :
         /\ fs' = o.fs
         /\ log' = Append(log, [tool |-> name,
                                args |-> ("working_directory" :> client.working_directory)
                                         @@ args,
                                illtyped |-> illtyped,
                                value |-> o.value, before |-> fs, after |-> o.fs])
    /\ UNCHANGED <<client, messages, pc, iteration, response, function_responses,
                   call_index, out, model_calls>>

\* the call with arguments of the expected types
ToolStep(name, args) == ToolStepIlltyped(name, args, {})

ListFiles == \E d \in Directories : ToolStep("list_files", [directory |-> d])

GetFileContent == \E p \in ReadPaths : ToolStep("get_file_content", [file_path |-> p])

\* the arguments of the overwrite_file calls: the short contents at every
\* path, and the long ones and the empty one at big.txt
Overwrites ==
    {[file_path |-> p, content |-> c] : p \in WritePaths, c \in Contents}
    \cup {[file_path |-> "big.txt", content |-> c] : c \in BigContents \cup {""}}

\* the same with a content that is no string
IlltypedOverwrites == {[file_path |-> p, content |-> 123] : p \in WritePaths}

OverwriteFile ==
    \/ \E a \in Overwrites : ToolStep("overwrite_file", a)
    \/ \E a \in IlltypedOverwrites : ToolStepIlltyped("overwrite_file", a, {"content"})

ReplaceStrFile == \E r \in Replacements : ToolStep("replace_str_file", r)

TodoAdd == \E t \in Tasks : ToolStep("todo_add", [task |-> t])

TodoList == ToolStep("todo_list", NoArgs)

TodoDone == \E i \in Indexes : ToolStep("todo_done", [index |-> i])

ToolsNext ==
    ListFiles \/ GetFileContent \/ OverwriteFile \/ ReplaceStrFile
    \/ TodoAdd \/ TodoList \/ TodoDone

ToolsSpec == ToolsInit /\ [][ToolsNext]_vars

(***************************************************************************)
(* What a state tells about the run so far.                                *)
(***************************************************************************)

IsPrefix(s, t) == Len(s) <= Len(t) /\ \A i \in 1..Len(s) : s[i] = t[i]

Printed(line) == \E i \in 1..Len(out) : out[i] = line

\* the two reports of generate_content
FinalEmitted == Printed("Final response:")
CapEmitted == Printed("Maximum iterations reached.")

\* the positions of the model's turns in the conversation, and of those
\* among them that request tool calls
ModelTurns == {i \in 1..Len(messages) : messages[i].role = "model"}
ToolTurns == {i \in ModelTurns : \E j \in 1..Len(messages[i].parts) :
                                    is_function_call(messages[i].parts[j])}

\* rounds are counted as the loop variable counts them, from 0
Rounds == 0..(Cardinality(ModelTurns) - 1)
TurnOfRound(r) == CHOOSE i \in ModelTurns : Cardinality({j \in ModelTurns : j < i}) = r

\* the calls c1..ck the model requested in round r
RequestedCalls(r) ==
    LET parts == SelectSeq(messages[TurnOfRound(r)].parts, is_function_call)
    IN  [i \in 1..Len(parts) |-> parts[i].function_call]

\* the invocations of call_function made in round r, in the order made
LogOfRound(r) == SelectSeq(log, LAMBDA e : e.round = r)

\* round r has run to its end
RoundCompleted(r) == r \in Rounds /\ (r < iteration \/ pc \in {"after_loop", "done"})

\* the response a tool result carries
ResponseOf(content) == content.parts[1].function_response.response

(***************************************************************************)
(* The kinds of tool-level failure, told from the call and the file system *)
(* the call found.                                                         *)
(***************************************************************************)

UnknownTool(e) == e.call.name \notin function_names

HandlerException(e) == e.exceptions # {}

\* a call of a file tool that binds and names its path
NamesPath(e) ==
    /\ e.call.name \in {"get_file_content", "overwrite_file", "replace_str_file"}
    /\ ~HandlerException(e)
    /\ "file_path" \in DOMAIN e.call.args

PathOf(e) == os_path_abspath(os_path_join("todo", e.call.args.file_path))

SandboxEscape(e) == NamesPath(e) /\ ~inside_working_directory(PathOf(e), "todo")

MissingFile(e) ==
    /\ NamesPath(e) /\ ~SandboxEscape(e)
    /\ e.call.name \in {"get_file_content", "replace_str_file"}
    /\ ~can_read(e.before, PathOf(e))

AbsentSubstring(e) ==
    /\ NamesPath(e) /\ ~SandboxEscape(e)
    /\ e.call.name = "replace_str_file"
    /\ can_read(e.before, PathOf(e))
    /\ ~str_contains(read_text(e.before, PathOf(e)), e.call.args.old_str)

\* the todo list the call found: empty while todos.json does not exist
StoredTodos(before) ==
    IF can_read(before, "todo/todos.json")
    THEN json_loads(read_text(before, "todo/todos.json")).todos
    ELSE <<>>

OutOfRangeIndex(e) ==
    /\ e.call.name = "todo_done"
    /\ ~HandlerException(e)
    /\ e.call.args.index \notin 1..Len(StoredTodos(e.before))

ToolFailure(e) ==
    \/ UnknownTool(e)
    \/ HandlerException(e)
    \/ SandboxEscape(e)
    \/ MissingFile(e)
    \/ AbsentSubstring(e)
    \/ OutOfRangeIndex(e)

\* the failures C7 lists: those the tools report themselves
ReportedFailure(e) ==
    \/ UnknownTool(e)
    \/ SandboxEscape(e)
    \/ MissingFile(e)
    \/ AbsentSubstring(e)
    \/ OutOfRangeIndex(e)

\* the position of log[k] among the calls of its round
PositionInRound(k) == Cardinality({j \in 1..k : log[j].round = log[k].round})

(***************************************************************************)
(* The loop of generate_content.                                           *)
(***************************************************************************)

\* C1: whatever the client answers, generate_content comes to its end (it
\* returns, or an exception leaves it) and has called the model 20 times at
\* most: there is no 21st model call.
C1_AtMostTwentyModelCalls ==
    /\ [](model_calls <= 20 /\ (pc = "call_model" => model_calls < 20))
    /\ <>(pc \in {"done", "crashed"})

C1_Witness == pc = "done" /\ model_calls = 20

\* C2: a run that has ended has printed exactly one of the final answer and
\* the report that the cap was reached, and the report is printed if and
\* only if all 20 rounds requested tool calls.
C2_ExactlyOneOutcome ==
    pc = "done" =>
        /\ FinalEmitted \/ CapEmitted
        /\ ~(FinalEmitted /\ CapEmitted)
        /\ CapEmitted <=> Cardinality(ToolTurns) = max_iterations

\* C3: no exception leaves the loop; a run in which the client never
\* requested a tool call ends after one model call and no tool invocation
\* with the final answer printed, and a run in which every response of the
\* client requested a tool call ends after 20 model calls with the report
\* that the cap was reached.
C3_NeverToolAndAlwaysTool ==
    /\ pc # "crashed"
    /\ pc = "done" /\ ToolTurns = {} =>
           model_calls = 1 /\ log = <<>> /\ FinalEmitted /\ ~CapEmitted
    /\ pc = "done" /\ ToolTurns = ModelTurns =>
           model_calls = 20 /\ Cardinality(ModelTurns) = 20
           /\ CapEmitted /\ ~FinalEmitted

C3_Witness ==
    pc = "done" /\ ToolTurns = ModelTurns /\ model_calls = 20 /\ CapEmitted

\* what C4 says of round r, whose turn is messages[t], whose requested
\* calls are calls and whose invocations are entries
C4_Round(r, t, calls, entries) ==
    /\ Len(entries) <= Len(calls)
    /\ \A i \in 1..Len(entries) : entries[i].call = calls[i]
    /\ RoundCompleted(r) =>
           /\ Len(entries) = Len(calls)
           /\ t + Len(calls) <= Len(messages)
           /\ \A i \in 1..Len(calls) :
                  messages[t + i].parts = entries[i].content.parts
           /\ t + Len(calls) = Len(messages) \/ t + Len(calls) + 1 \in ModelTurns

\* C4: in every round the invocations of call_function are the requested
\* calls c1..ck, each once and in the order requested (a round under way has
\* made the first of them), and the round appends exactly k messages after
\* the model's turn, the i-th holding the result of ci.
C4_CallsAndResultsInOrder ==
    \A r \in Rounds : C4_Round(r, TurnOfRound(r), RequestedCalls(r), LogOfRound(r))

C4_Witness ==
    /\ pc = "done"
    /\ \E r \in Rounds :
         /\ Len(RequestedCalls(r)) = 2
         /\ RequestedCalls(r)[1] # RequestedCalls(r)[2]
         /\ messages[TurnOfRound(r) + 1] # messages[TurnOfRound(r) + 2]

\* C5: the first message is the only one with role user; the model's turns
\* have role model (the assistant) and every message that holds a tool
\* result has role tool.
C5_RolesAreRight ==
    \A i \in 1..Len(messages) :
        /\ messages[i].role = "user" <=> i = 1
        /\ messages[i].role \in {"user", "model", "tool"}
        /\ (\E j \in 1..Len(messages[i].parts) :
                "function_response" \in DOMAIN messages[i].parts[j])
               => messages[i].role = "tool"

\* C6: every step leaves the conversation it found as a prefix of the
\* conversation it leaves.
C6_AppendOnly == [][IsPrefix(messages, messages')]_vars

C6_Witness ==
    /\ pc = "done" /\ Len(messages) > 4
    /\ \E k \in 1..Len(log) : log[k].after # log[k].before

\* what C7 says of the failed call log[k] of round r, whose turn is
\* messages[t]
C7_Failure(k, r, t) ==
    /\ ~log[k].raised
    /\ RoundCompleted(r) =>
           /\ messages[t + PositionInRound(k)].parts = log[k].content.parts
           /\ Len(LogOfRound(r)) = Len(RequestedCalls(r))
    /\ pc = "done" /\ r + 1 < max_iterations => model_calls >= r + 2

\* C7: no call leaves the loop by an exception, and for every call that
\* failed (unknown tool, missing file, todo index out of range, path
\* outside the sandbox, substring absent): the call returned, the round ran
\* all its calls and appended this call's error text as its result, and if
\* the round was not the 20th the model was called again in the next round.
C7_ToolErrorsDoNotAbort ==
    /\ pc # "crashed"
    /\ \A k \in 1..Len(log) :
           ReportedFailure(log[k]) =>
               C7_Failure(k, log[k].round, TurnOfRound(log[k].round))

C7_Witness ==
    /\ pc = "done"
    /\ \E k \in 1..Len(log) :
         /\ ReportedFailure(log[k])
         /\ k < Len(log) /\ log[k + 1].round = log[k].round
         /\ model_calls >= log[k].round + 2

(***************************************************************************)
(* call_function.                                                          *)
(***************************************************************************)

\* C8: for every tool name and every argument mapping (a mapping keyed by
\* strings, as a function call brings it: arguments missing, extra or of
\* another type among them), call_function returned from every call, with a
\* tool result (a Content of role tool whose part is the function response
\* of that name), and where the handler raised an exception (a binding that
\* fails, a directory opened as a file, a todos.json that is no JSON) the
\* result is the text "Error: " followed by the message of the exception.
C8_DispatchNeverRaises ==
    /\ pc # "crashed"
    /\ \A k \in 1..Len(log) :
           /\ ~log[k].raised
           /\ log[k].content.role = "tool"
           /\ Len(log[k].content.parts) = 1
           /\ log[k].content.parts[1].function_response.name = log[k].call.name
           /\ HandlerException(log[k]) =>
                  \E message \in log[k].exceptions :
                      ResponseOf(log[k].content) = [result |-> "Error: " \o message]

C8_Witness ==
    /\ pc = "done"
    /\ \E k \in 1..Len(log) :
         HandlerException(log[k]) /\ k < Len(log) /\ ~HandlerException(log[k + 1])

\* a result with the Error tag: the response has the key "error", or its
\* text begins with "Error:"
ErrorTagged(content) ==
    \/ "error" \in DOMAIN ResponseOf(content)
    \/ "result" \in DOMAIN ResponseOf(content)
       /\ startswith(ResponseOf(content).result, "Error:")

\* C9: every result is tagged (its response has the one key "result" or the
\* one key "error"), and every call that failed (unknown tool, missing
\* file, todo index out of range, path outside the sandbox, substring
\* absent, exception in the handler) has a result with the Error tag.
C9_FailuresAreTaggedError ==
    \A k \in 1..Len(log) :
        /\ DOMAIN ResponseOf(log[k].content) \in {{"result"}, {"error"}}
        /\ ToolFailure(log[k]) => ErrorTagged(log[k].content)

\* C10: a call whose name is no key of function_map returns the error
\* "Unknown function: <name>", invokes no handler and leaves the file
\* system, and with it the todo list, as it found it.
C10_UnknownFunction ==
    \A k \in 1..Len(log) :
        UnknownTool(log[k]) =>
            /\ ~log[k].raised
            /\ ResponseOf(log[k].content)
                   = [error |-> "Unknown function: " \o log[k].call.name]
            /\ log[k].handler = ""
            /\ log[k].after = log[k].before

C10_Witness ==
    \E k \in 1..Len(log) :
        /\ UnknownTool(log[k])
        /\ k > 1 /\ StoredTodos(log[k].before) # <<>>

\* C11: every handler that call_function invoked was given the working
\* directory 'todo', also where the model supplied another one, next to the
\* arguments of the model unchanged: one working directory for every call of
\* the run.
C11_WorkingDirectoryInjected ==
    \A k \in 1..Len(log) :
        log[k].handler # "" =>
            /\ DOMAIN log[k].args = DOMAIN log[k].call.args \cup {"working_directory"}
            /\ log[k].args.working_directory = "todo"
            /\ \A a \in DOMAIN log[k].call.args \ {"working_directory"} :
                   log[k].args[a] = log[k].call.args[a]
            /\ \A j \in 1..Len(log) :
                   log[j].handler # "" =>
                       log[j].args.working_directory = log[k].args.working_directory

C11_Witness ==
    \E j, k \in 1..Len(log) :
        /\ j # k /\ log[j].handler # ""
        /\ "working_directory" \notin DOMAIN log[j].call.args
        /\ log[k].handler = "get_file_content"
        /\ "working_directory" \in DOMAIN log[k].call.args
        /\ log[k].call.args.working_directory # "todo"
        /\ ResponseOf(log[k].content) = [result |-> "Error: File \"key\" does not exist"]

(***************************************************************************)
(* The tools.  These are properties of ToolsSpec, whose log holds the      *)
(* calls of the tools.                                                     *)
(***************************************************************************)

FileTools == {"list_files", "get_file_content", "overwrite_file", "replace_str_file"}

\* the path a call of a file tool names, and the absolute path it stands for
NamedPath(e) == IF e.tool = "list_files" THEN e.args.directory ELSE e.args.file_path

Resolved(e) == os_path_abspath(os_path_join(e.args.working_directory, NamedPath(e)))

\* path a is the directory root or lies below it
IsDescendant(a, root) == a = root \/ startswith(a, root \o "/")

Escapes(e) ==
    /\ e.tool \in FileTools
    /\ ~IsDescendant(Resolved(e), os_path_abspath(e.args.working_directory))

OutOfBoundsError(value) ==
    /\ startswith(value, "Error: Cannot ")
    /\ endswith(value, " as it is outside the permitted working directory")

TruncationMarker(file_path) ==
    "\n[...File \"" \o file_path \o "\" truncated at 100000 characters]"

\* log[k] wrote content C to a path inside the working directory and
\* log[k + 1] read that path
WriteThenRead(k) ==
    /\ k < Len(log)
    /\ log[k].tool = "overwrite_file" /\ ~Escapes(log[k])
    /\ log[k].value = "Successfully wrote to \"" \o log[k].args.file_path \o "\""
    /\ log[k + 1].tool = "get_file_content"
    /\ log[k + 1].args.file_path = log[k].args.file_path

\* C13: get_file_content after overwrite_file of content C to the same path
\* inside the working directory returns C where C has at most MAX_CHARS
\* characters (exactly MAX_CHARS among them), and the first MAX_CHARS
\* characters of C followed by the marker where C has more.
C13_WriteReadRoundTrip ==
    \A k \in 1..Len(log) :
        WriteThenRead(k) =>
            log[k + 1].value =
                IF Len(log[k].args.content) <= MAX_CHARS
                THEN log[k].args.content
                ELSE SubSeq(log[k].args.content, 1, MAX_CHARS)
                     \o TruncationMarker(log[k].args.file_path)

\* text C with every occurrence of a non-empty O replaced by N, read from
\* left to right
RECURSIVE WithEveryOccurrenceReplaced(_, _, _)
WithEveryOccurrenceReplaced(C, O, N) ==
    IF C = "" THEN ""
    ELSE IF startswith(C, O)
    THEN N \o WithEveryOccurrenceReplaced(StrFrom(C, Len(O)), O, N)
    ELSE SubSeq(C, 1, 1) \o WithEveryOccurrenceReplaced(StrFrom(C, 1), O, N)

\* log[k] is replace_str_file on a file of the working directory that holds
\* old_str
ReplacesInFile(e) ==
    /\ e.tool = "replace_str_file" /\ ~Escapes(e)
    /\ e.args.old_str # ""
    /\ can_read(e.before, Resolved(e))
    /\ str_contains(read_text(e.before, Resolved(e)), e.args.old_str)

\* what C14 says of such a call, C the content the call found
C14_Replaced(e, C) ==
    /\ e.after = write_text(e.before, Resolved(e),
                            WithEveryOccurrenceReplaced(C, e.args.old_str, e.args.new_str))
    /\ e.value # ""
    /\ IF WithEveryOccurrenceReplaced(C, e.args.old_str, e.args.new_str) = C
       THEN e.value = "Successfully replaced \"" \o e.args.old_str \o "\" with \""
                      \o e.args.new_str \o "\" in " \o e.args.file_path
       ELSE startswith(e.value, "--- a/" \o e.args.file_path)

\* C14: replace_str_file on a file whose content C contains old_str leaves
\* the file with C in which every occurrence of old_str is replaced by
\* new_str, and every other file as it was, and returns a text that is not
\* empty: the diff, or the fallback message where the content did not change.
C14_ReplacesEveryOccurrence ==
    \A k \in 1..Len(log) :
        ReplacesInFile(log[k]) =>
            C14_Replaced(log[k], read_text(log[k].before, Resolved(log[k])))

C14_Witness ==
    \E k \in 1..Len(log) :
        /\ ReplacesInFile(log[k])
        /\ read_text(log[k].before, Resolved(log[k])) = "foo foo"
        /\ log[k].args.old_str = "foo" /\ log[k].args.new_str = "bar"
        /\ read_text(log[k].after, Resolved(log[k])) = "bar bar"
        /\ startswith(log[k].value, "--- a/a.txt")

\* a result that reports an error: a text that begins with "Error:" (under
\* call_function every result of a handler has the key "result")
ReportsError(value) == startswith(value, "Error:")

\* log[k] is replace_str_file on a path of the working directory where no
\* file is, or on a file that does not hold old_str
ReplacesNothing(e) ==
    /\ e.tool = "replace_str_file" /\ ~Escapes(e)
    /\ \/ ~is_entry(e.before, Resolved(e))
       \/ /\ can_read(e.before, Resolved(e))
          /\ ~str_contains(read_text(e.before, Resolved(e)), e.args.old_str)

\* C15: replace_str_file on a file that does not hold old_str, or on a path
\* where no file is, returns an error and leaves the file system as it was:
\* no content changed, no file made.
C15_ReplaceOfAbsentIsError ==
    \A k \in 1..Len(log) :
        ReplacesNothing(log[k]) =>
            ReportsError(log[k].value) /\ log[k].after = log[k].before

\* the todo store of the working directory 'todo' and what it holds: the
\* list json.load gives, or the empty list where there is no file
TodoFile == "todo/todos.json"

Store(f) ==
    IF can_read(f, TodoFile) THEN json_loads(read_text(f, TodoFile))
    ELSE [ok |-> TRUE, todos |-> <<>>]

\* C16: todo_add(task) on a stored list of n items (no file: n = 0) leaves a
\* file with a list of n + 1 items: the n items as they were, and last the
\* item with the task given and done = false; no other file is touched.
C16_AddAppends ==
    \A k \in 1..Len(log) :
        log[k].tool = "todo_add" /\ Store(log[k].before).ok =>
            /\ can_read(log[k].after, TodoFile)
            /\ Store(log[k].after).ok
            /\ Store(log[k].after).todos =
                   Append(Store(log[k].before).todos,
                          [task |-> log[k].args.task, done |-> FALSE])
            /\ log[k].after = write_text(log[k].before, TodoFile,
                                         read_text(log[k].after, TodoFile))

C16_Witness ==
    \E k \in 1..Len(log) :
        /\ log[k].tool = "todo_add"
        /\ Len(Store(log[k].before).todos) = 2
        /\ Len(Store(log[k].after).todos) = 3
        /\ Store(log[k].after).todos[1].done
        /\ Store(log[k].after).todos[3] = [task |-> "buy milk", done |-> FALSE]

\* todo_done(index) on the stored list todos: index names an item
InRange(index, todos) == 1 <= index /\ index <= Len(todos)

\* what C17 says of the call e of todo_done on the stored list todos
C17_Marked(e, todos) ==
    IF InRange(e.args.index, todos)
    THEN /\ Store(e.after).ok
         /\ Store(e.after).todos = [todos EXCEPT ![e.args.index].done = TRUE]
    ELSE /\ e.after = e.before
         /\ ReportsError(e.value)

\* C17: todo_done(i) on a stored list of n items sets done = true on item i
\* and leaves its task and every other item as they were where 1 <= i <= n;
\* for every other i (0, negative, n + 1, a list that is empty or not
\* there) it leaves the store as it was and returns an error.
C17_MarkDone ==
    \A k \in 1..Len(log) :
        log[k].tool = "todo_done" /\ Store(log[k].before).ok =>
            C17_Marked(log[k], Store(log[k].before).todos)

\* the message of todo_done for an item it completed
CompletedMessage(task) == "(party) Completed: " \o task

\* the call e of todo_done names an item of the stored list todos that is
\* done already
MarksAgain(e, todos) == InRange(e.args.index, todos) /\ todos[e.args.index].done

\* C18: todo_done(i) on an item that is done already succeeds, leaves the
\* stored list as it was and returns another message than the one of the
\* completion.
C18_MarkDoneAgain ==
    \A k \in 1..Len(log) :
        /\ log[k].tool = "todo_done" /\ Store(log[k].before).ok
        /\ MarksAgain(log[k], Store(log[k].before).todos)
        => /\ ~ReportsError(log[k].value)
           /\ Store(log[k].after).todos = Store(log[k].before).todos
           /\ log[k].value #
                  CompletedMessage(Store(log[k].before).todos[log[k].args.index].task)

\* line shows item number i of the list, todo, as todo_list renders it
ShowsItem(line, i, todo) ==
    /\ startswith(line, "  " \o int_to_str(i) \o ". ")
    /\ startswith(line, "  " \o int_to_str(i) \o ". (o) ") <=> ~todo.done
    /\ startswith(line, "  " \o int_to_str(i) \o ". (v) ") <=> todo.done
    /\ str_contains(line, todo.task)

\* what C20 says of the text todo_list returned for the stored list todos,
\* lines being the lines of the text
C20_Rendered(value, lines, todos) ==
    IF todos = <<>> THEN value = "(memo) No todos found!"
    ELSE /\ Len(lines) = Len(todos) + 1
         /\ lines[1] = "(list) Your todos:"
         /\ \A i \in 1..Len(todos) : ShowsItem(lines[i + 1], i, todos[i])

\* C20: todo_list returns the no-todos message for a list that is empty or
\* not there, and else the heading and one line for every stored item, in
\* the order stored and numbered from 1, with the open glyph exactly for the
\* items not done and the done glyph exactly for the items done; it changes
\* nothing.
C20_ListRenders ==
    \A k \in 1..Len(log) :
        log[k].tool = "todo_list" /\ Store(log[k].before).ok =>
            /\ log[k].after = log[k].before
            /\ C20_Rendered(log[k].value, str_split(log[k].value, "\n"),
                            Store(log[k].before).todos)

C20_Witness ==
    /\ Len(log) = 2
    /\ log[1].tool = "todo_done" /\ log[1].args.index = 2
    /\ log[2].tool = "todo_list"
    /\ log[2].value = "(list) Your todos:\n  1. (v) ~~a~~\n  2. (v) ~~buy milk~~"

TodoTools == {"todo_add", "todo_list", "todo_done"}

\* the calls j..k of the log are todo operations
TodoOperations(j, k) == \A n \in j..k : log[n].tool \in TodoTools

\* the list new keeps every item of the list old at its index, with its task,
\* and with its done flag unless the flag went from false to true
GrownFrom(old, new) ==
    /\ Len(new) >= Len(old)
    /\ \A i \in 1..Len(old) :
         /\ new[i].task = old[i].task
         /\ old[i].done => new[i].done

\* C21: over any run of todo operations (todo_add, todo_list, todo_done) the
\* stored list only grows and its indices are stable: it never gets shorter,
\* the task at an index never changes once the item exists, and no done flag
\* goes from true back to false.
C21_OnlyGrows ==
    \A j \in 1..Len(log) : \A k \in j..Len(log) :
        TodoOperations(j, k) /\ Store(log[j].before).ok =>
            /\ Store(log[k].after).ok
            /\ GrownFrom(Store(log[j].before).todos, Store(log[k].after).todos)

C21_Witness ==
    /\ Len(log) = 2
    /\ log[1].tool = "todo_add" /\ log[2].tool = "todo_done"
    /\ Len(Store(log[1].before).todos) = 2
    /\ ~Store(log[1].before).todos[2].done
    /\ Len(Store(log[2].after).todos) = 3
    /\ Store(log[2].after).todos[2].done
    /\ Store(log[2].after).todos[1].done

\* the result of the call is one of the tools' error texts: the tagged ones,
\* and the two reports that come without the tag
ReturnsError(e) ==
    \/ ReportsError(e.value)
    \/ e.tool = "replace_str_file" /\ startswith(e.value, "String \"")
    \/ e.tool = "todo_done" /\ startswith(e.value, "(x) ")

\* what f holds under the sandbox root: the files with their contents, and
\* the directories
UnderRoot(f, root) ==
    [files |-> [p \in {q \in DOMAIN f.files : IsDescendant(q, root)} |-> f.files[p]],
     dirs |-> {d \in f.dirs : IsDescendant(d, root)}]

\* C23: a tool call whose result is an error changes nothing: the files
\* under the sandbox root, and with them the stored todo list, are after the
\* call exactly what they were before it.
C23_ErrorsDoNotMutate ==
    \A k \in 1..Len(log) :
        ReturnsError(log[k]) =>
            UnderRoot(log[k].after, os_path_abspath(log[k].args.working_directory))
                = UnderRoot(log[k].before, os_path_abspath(log[k].args.working_directory))

(***************************************************************************)
(* The order of the rounds, a property of Spec.                            *)
(***************************************************************************)

\* the step calls the model: `contents=messages` is the conversation before
\* the step
CallsModel == model_calls' = model_calls + 1

\* the conversation passed is what round r was passed (the messages before
\* its turn messages[t]), the turn, and the results of all its calls, each
\* of which has returned
C22_FollowsRound(r, t, calls, entries) ==
    /\ Len(entries) = Len(calls)
    /\ \A i \in 1..Len(entries) : entries[i].call = calls[i] /\ ~entries[i].raised
    /\ Len(messages) = t + Len(calls)
    /\ \A i \in 1..Len(calls) : messages[t + i].parts = entries[i].content.parts

\* what C22 says of a step that calls the model
C22_ModelCall ==
    /\ Len(messages') = Len(messages) + 1
    /\ IsPrefix(messages, messages')
    /\ messages'[Len(messages')].role = "model"
    /\ \A n \in 1..Len(log) : log[n].round < iteration
    /\ iteration >= 1 =>
           C22_FollowsRound(iteration - 1, TurnOfRound(iteration - 1),
                            RequestedCalls(iteration - 1), LogOfRound(iteration - 1))

\* C22: rounds do not overlap.  The model is called for round r+1 only when
\* every call requested in round r has returned and its result is in the
\* conversation: the conversation the call passes is the one round r passed,
\* then round r's turn (appended right behind what was passed), then all the
\* results of round r and nothing more.
C22_RoundsDoNotOverlap == [][CallsModel => C22_ModelCall]_vars

C22_Witness ==
    /\ model_calls = 2 /\ iteration = 1
    /\ Len(RequestedCalls(0)) = 2
    /\ Len(LogOfRound(0)) = 2
    /\ Len(messages) = 5
    /\ messages[5].role = "model"

(***************************************************************************)
(* The todo document under the calls of the loop, a property of Spec.      *)
(***************************************************************************)

\* the tools that are not to touch the todo document
OtherTools ==
    {"list_files", "get_file_content", "overwrite_file", "replace_str_file", "todo_list"}

\* the todo document in f: whether there is an entry of its name, and the
\* text of the file if it is one
TodoDocument(f) ==
    [entry |-> is_entry(f, TodoFile),
     text |-> IF can_read(f, TodoFile) THEN <<read_text(f, TodoFile)>> ELSE <<>>]

\* the document in f, if there is one, is a file holding a list of
\* {task, done} records
WellFormed(f) ==
    is_entry(f, TodoFile) =>
        /\ can_read(f, TodoFile)
        /\ Store(f).ok
        /\ \A i \in 1..Len(Store(f).todos) :
               DOMAIN Store(f).todos[i] = {"task", "done"}

\* C24: of the calls the loop dispatches only those to todo_add and
\* todo_done change the todo document: no call to list_files,
\* get_file_content, overwrite_file, replace_str_file or todo_list alters
\* it, and it is a well-formed list of {task, done} records at all times.
C24_OnlyTodoToolsChangeTheList ==
    /\ \A k \in 1..Len(log) :
           log[k].call.name \in OtherTools =>
               TodoDocument(log[k].after) = TodoDocument(log[k].before)
    /\ WellFormed(fs)

(***************************************************************************)
(* The loop with function calls that may come without args, a property of  *)
(* SpecArgsOptional.                                                       *)
(***************************************************************************)

HoldsToolResult(message) ==
    \E j \in 1..Len(message.parts) : "function_response" \in DOMAIN message.parts[j]

\* C19: a turn of the model that carries tool calls is followed in the
\* conversation by a tool result; where it is followed by none, its round is
\* under way or an exception has ended the run: the loop does not reach the
\* next model call, the final answer or the report of the cap.
C19_NoResultsIsFatal ==
    \A t \in ToolTurns :
        /\ t < Len(messages) => HoldsToolResult(messages[t + 1])
        /\ t = Len(messages) => pc \in {"call_function", "append_responses", "crashed"}

C19_Witness ==
    /\ pc = "crashed"
    /\ Len(messages) \in ToolTurns
    /\ Len(RequestedCalls(iteration)) = 2
    /\ Len(LogOfRound(iteration)) = 2
    /\ ~log[Len(log) - 1].raised /\ log[Len(log)].raised
====
